---- MODULE Spec2Model ----
(***************************************************************************)
(* The upload / recognise / copy workflow of web_app/frontend/src/App.vue. *)
(* The state is the component's refs, the requests handed to axios, the    *)
(* submitUpload invocations suspended at their await, the clipboard        *)
(* promises, and the last ElMessage shown.  One action per user event the  *)
(* template wires to a handler, and one per promise settlement.            *)
(***************************************************************************)
EXTENDS Naturals, Sequences, FiniteSets

\* ---------------------------------------------------------------- bounds
\* Number of requests submitUpload may post in one behaviour.
MaxRequests == 2
\* Number of clipboard promises that may be unsettled at once.
MaxClipboardPending == 1

\* ---------------------------------------------------------------- inputs
\* el-upload :limit="1"
UploadLimit == 1

\* UploadFile objects el-upload hands to on-change; .raw is the File.
UploadFiles == { [name |-> "a.png", raw |-> "blobA"],
                 [name |-> "b.png", raw |-> "blobB"] }

\* The two el-radio labels bound to selectedMode.
Modes == {"markdown", "ocr"}

\* Strings the backend may put in the result field.
Texts == {"", "abc", "xyz"}

\* response.data of a fulfilled axios.post: null, an object without a result
\* field, or an object whose result field is a string.
Responses ==
    { [data |-> "null",   hasResult |-> FALSE, result |-> ""],
      [data |-> "object", hasResult |-> FALSE, result |-> ""] }
    \cup { [data |-> "object", hasResult |-> TRUE, result |-> t] : t \in Texts }

\* The error of a rejected axios.post: error.response?.data?.detail ("" when
\* absent) and error.message.
Errors == { [detail |-> "",          message |-> "Network Error"],
            [detail |-> "bad image", message |-> "Request failed with status code 500"] }

NoMessage == [level |-> "none", text |-> "", detail |-> ""]

ElMessage(level, text, detail) == [level |-> level, text |-> text, detail |-> detail]

VARIABLES
    fileList,      \* ref([]): the selected UploadFile, as a sequence
    selectedMode,  \* ref('markdown')
    loading,       \* ref(false)
    result,        \* ref('')
    rawResult,     \* ref('')
    posted,        \* every FormData handed to axios.post('/api/ocr'), in order
    awaiting,      \* indices of posted whose submitUpload is suspended at await
    clipPending,   \* texts of unsettled navigator.clipboard.writeText promises
    clipboard,     \* the system clipboard's text
    message,       \* the last ElMessage shown
    lastCall,      \* history: the handler or continuation that ran last
    atCall,        \* history: <<result, rawResult>> at the call, per awaiting request
    reselected,    \* history: awaiting requests that saw a select or remove
    modeTouched,   \* history: the radio group was used
    resultSource   \* history: file of the request whose response is in result

vars == << fileList, selectedMode, loading, result, rawResult, posted, awaiting,
           clipPending, clipboard, message, lastCall, atCall, reselected,
           modeTouched, resultSource >>

Call(fn, args) == [fn |-> fn, args |-> args]

Init ==
    /\ fileList = << >>
    /\ selectedMode = "markdown"
    /\ loading = FALSE
    /\ result = ""
    /\ rawResult = ""
    /\ posted = << >>
    /\ awaiting = {}
    /\ clipPending = << >>
    /\ clipboard = ""
    /\ message = NoMessage
    /\ lastCall = Call("setup", << >>)
    /\ atCall = [i \in {} |-> << >>]
    /\ reselected = {}
    /\ modeTouched = FALSE
    /\ resultSource = "none"

\* ------------------------------------------------------------ handlers

\* const handleUploadChange = (file) => { ... }
handleUploadChange(file) ==
    /\ fileList' = << file >>
    /\ result' = ""
    /\ rawResult' = ""

\* Variant: handleRemove that clears the result but not fileList.
handleRemove_keepsFile ==
    /\ fileList' = fileList
    /\ result' = ""
    /\ rawResult' = ""

\* const handleRemove = () => { ... }
handleRemove ==
    /\ fileList' = << >>
    /\ result' = ""
    /\ rawResult' = ""

\* Variant: the mode field fixed to the default instead of read at the call.
FormData_defaultMode(file, mode) == [file |-> file.raw, mode |-> "markdown"]

\* formData.append('file', ...raw); formData.append('mode', selectedMode.value)
FormData(file, mode) == [file |-> file.raw, mode |-> mode]

\* JavaScript truthiness of response.data && response.data.result
HasResult(response) ==
    /\ response.data = "object"
    /\ response.hasResult
    /\ response.result # ""

\* error.response?.data?.detail || error.message
ErrorText(error) == IF error.detail # "" THEN error.detail ELSE error.message

\* Variant: a submit button that stays clickable while loading.
SubmitEnabled_always == TRUE

\* el-button :loading="loading": a loading button emits no click.
SubmitEnabled == ~loading

\* el-button v-if="rawResult": the copy button exists only with raw text.
CopyShown == rawResult # ""

\* ------------------------------------------------------------- actions

\* el-upload :on-change, which el-upload fires only below its :limit.
SelectFile ==
    \E f \in UploadFiles :
        /\ Len(fileList) + 1 <= UploadLimit
        /\ handleUploadChange(f)
        /\ reselected' = reselected \cup awaiting
        /\ resultSource' = "none"
        /\ lastCall' = Call("handleUploadChange", << f >>)
        /\ UNCHANGED << selectedMode, loading, posted, awaiting, clipPending,
                        clipboard, message, atCall, modeTouched >>

\* el-upload :on-remove, from the remove control of the listed file.
RemoveFile ==
    /\ Len(fileList) > 0
    /\ handleRemove
    /\ reselected' = reselected \cup awaiting
    /\ resultSource' = "none"
    /\ lastCall' = Call("handleRemove", << >>)
    /\ UNCHANGED << selectedMode, loading, posted, awaiting, clipPending,
                    clipboard, message, atCall, modeTouched >>

\* el-radio-group v-model="selectedMode"
SetMode ==
    \E m \in Modes :
        /\ selectedMode' = m
        /\ modeTouched' = TRUE
        /\ lastCall' = Call("selectedMode", << m >>)
        /\ UNCHANGED << fileList, loading, result, rawResult, posted, awaiting,
                        clipPending, clipboard, message, atCall, reselected,
                        resultSource >>

\* Variant: loading set before the empty-selection check.
submitUpload_loadingFirst ==
    \/ /\ Len(fileList) = 0
       /\ loading' = TRUE
       /\ message' = ElMessage("warning", "select an image first", "")
       /\ lastCall' = Call("submitUpload", << >>)
       /\ UNCHANGED << fileList, selectedMode, result, rawResult,
                       posted, awaiting, clipPending, clipboard, atCall,
                       reselected, modeTouched, resultSource >>
    \/ /\ Len(fileList) # 0
       /\ Len(posted) < MaxRequests
       /\ loading' = TRUE
       /\ posted' = Append(posted, FormData(fileList[1], selectedMode))
       /\ awaiting' = awaiting \cup { Len(posted) + 1 }
       /\ atCall' = [i \in awaiting \cup { Len(posted) + 1 } |->
                        IF i \in awaiting THEN atCall[i] ELSE << result, rawResult >>]
       /\ lastCall' = Call("submitUpload", << Len(posted) + 1 >>)
       /\ UNCHANGED << fileList, selectedMode, result, rawResult, clipPending,
                       clipboard, message, reselected, modeTouched,
                       resultSource >>

\* submitUpload up to its await: the early return, or the dispatch.
submitUpload ==
    \/ /\ Len(fileList) = 0
       /\ message' = ElMessage("warning", "select an image first", "")
       /\ lastCall' = Call("submitUpload", << >>)
       /\ UNCHANGED << fileList, selectedMode, loading, result, rawResult,
                       posted, awaiting, clipPending, clipboard, atCall,
                       reselected, modeTouched, resultSource >>
    \/ /\ Len(fileList) # 0
       /\ Len(posted) < MaxRequests
       /\ loading' = TRUE
       /\ posted' = Append(posted, FormData(fileList[1], selectedMode))
       /\ awaiting' = awaiting \cup { Len(posted) + 1 }
       /\ atCall' = [i \in awaiting \cup { Len(posted) + 1 } |->
                        IF i \in awaiting THEN atCall[i] ELSE << result, rawResult >>]
       /\ lastCall' = Call("submitUpload", << Len(posted) + 1 >>)
       /\ UNCHANGED << fileList, selectedMode, result, rawResult, clipPending,
                       clipboard, message, reselected, modeTouched,
                       resultSource >>

\* el-button @click="submitUpload"
ClickSubmit ==
    /\ SubmitEnabled
    /\ submitUpload

\* Variant: the success branch writes result but not rawResult.
onFulfilled_resultOnly(i, response) ==
    /\ IF HasResult(response)
       THEN /\ result' = response.result
            /\ message' = ElMessage("success", "recognised", "")
            /\ resultSource' = posted[i].file
            /\ UNCHANGED rawResult
       ELSE /\ message' = ElMessage("warning", "no result returned", "")
            /\ UNCHANGED << result, rawResult, resultSource >>
    /\ loading' = FALSE

\* Variant: the no-result branch clears the previous result.
onFulfilled_elseClears(i, response) ==
    /\ IF HasResult(response)
       THEN /\ result' = response.result
            /\ rawResult' = response.result
            /\ message' = ElMessage("success", "recognised", "")
            /\ resultSource' = posted[i].file
       ELSE /\ message' = ElMessage("warning", "no result returned", "")
            /\ result' = ""
            /\ rawResult' = ""
            /\ resultSource' = "none"
    /\ loading' = FALSE

\* submitUpload resumed after axios.post fulfilled: the try body, then finally.
onFulfilled(i, response) ==
    /\ IF HasResult(response)
       THEN /\ result' = response.result
            /\ rawResult' = response.result
            /\ message' = ElMessage("success", "recognised", "")
            /\ resultSource' = posted[i].file
       ELSE /\ message' = ElMessage("warning", "no result returned", "")
            /\ UNCHANGED << result, rawResult, resultSource >>
    /\ loading' = FALSE

\* Variant: loading cleared in the try body only, not in a finally.
onRejected_noFinally(i, error) ==
    /\ message' = ElMessage("error", "recognition failed", ErrorText(error))
    /\ UNCHANGED << loading, result, rawResult, resultSource >>

\* submitUpload resumed after axios.post rejected: catch, then finally.
onRejected(i, error) ==
    /\ message' = ElMessage("error", "recognition failed", ErrorText(error))
    /\ loading' = FALSE
    /\ UNCHANGED << result, rawResult, resultSource >>

Fulfil ==
    \E i \in awaiting, response \in Responses :
        /\ onFulfilled(i, response)
        /\ awaiting' = awaiting \ {i}
        /\ atCall' = [j \in awaiting \ {i} |-> atCall[j]]
        /\ reselected' = reselected \ {i}
        /\ lastCall' = Call("fulfilled", << i, response >>)
        /\ UNCHANGED << fileList, selectedMode, posted, clipPending, clipboard,
                        modeTouched >>

Reject ==
    \E i \in awaiting, error \in Errors :
        /\ onRejected(i, error)
        /\ awaiting' = awaiting \ {i}
        /\ atCall' = [j \in awaiting \ {i} |-> atCall[j]]
        /\ reselected' = reselected \ {i}
        /\ lastCall' = Call("rejected", << i, error >>)
        /\ UNCHANGED << fileList, selectedMode, posted, clipPending, clipboard,
                        modeTouched >>

\* const copyResult = () => { if (!rawResult.value) return; writeText(...) }
copyResult ==
    /\ rawResult # ""
    /\ clipPending' = Append(clipPending, rawResult)

\* el-button v-if="rawResult" @click="copyResult"
ClickCopy ==
    /\ CopyShown
    /\ Len(clipPending) < MaxClipboardPending
    /\ copyResult
    /\ lastCall' = Call("copyResult", << >>)
    /\ UNCHANGED << fileList, selectedMode, loading, result, rawResult, posted,
                    awaiting, clipboard, message, atCall, reselected,
                    modeTouched, resultSource >>

\* .then(() => { ElMessage.success(...) })
onCopied ==
    /\ message' = ElMessage("success", "copied", "")
    /\ UNCHANGED << fileList, selectedMode, loading, result, rawResult >>

\* Variant: writeText without a catch handler.
onCopyFailed_uncaught ==
    /\ UNCHANGED << message, fileList, selectedMode, loading, result, rawResult >>

\* .catch(() => { ElMessage.error(...) })
onCopyFailed ==
    /\ message' = ElMessage("error", "copy failed", "")
    /\ UNCHANGED << fileList, selectedMode, loading, result, rawResult >>

ClipboardFulfil ==
    /\ clipPending # << >>
    /\ clipboard' = Head(clipPending)
    /\ clipPending' = Tail(clipPending)
    /\ onCopied
    /\ lastCall' = Call("copied", << >>)
    /\ UNCHANGED << posted, awaiting, atCall, reselected, modeTouched,
                    resultSource >>

ClipboardReject ==
    /\ clipPending # << >>
    /\ clipPending' = Tail(clipPending)
    /\ onCopyFailed
    /\ lastCall' = Call("copyFailed", << >>)
    /\ UNCHANGED << clipboard, posted, awaiting, atCall, reselected,
                    modeTouched, resultSource >>

Next ==
    \/ SelectFile
    \/ RemoveFile
    \/ SetMode
    \/ ClickSubmit
    \/ Fulfil
    \/ Reject
    \/ ClickCopy
    \/ ClipboardFulfil
    \/ ClipboardReject

Spec == Init /\ [][Next]_vars

\* --------------------------------------------------------- properties

AppState == << fileList, selectedMode, loading, result, rawResult >>

\* The step completed request i without a result: the request was rejected,
\* or it was fulfilled with null data or data lacking the result field.
CompletedWithoutResult ==
    \/ lastCall'.fn = "rejected"
    \/ /\ lastCall'.fn = "fulfilled"
       /\ ~(lastCall'.args[2].data = "object" /\ lastCall'.args[2].hasResult)

\* C1: submitUpload() with no file selected posts no request, leaves result
\* and rawResult unchanged and loading false, and only shows a warning.
C1_NoFileSubmitOnlyWarns ==
    [][ (lastCall'.fn = "submitUpload" /\ fileList = << >>) =>
            /\ posted' = posted
            /\ awaiting' = awaiting
            /\ result' = result
            /\ rawResult' = rawResult
            /\ loading = FALSE
            /\ loading' = FALSE
            /\ message'.level = "warning" ]_vars

C1_Witness ==
    /\ lastCall = Call("submitUpload", << >>)
    /\ fileList = << >>
    /\ message = ElMessage("warning", "select an image first", "")
    /\ Len(posted) > 0

\* C2: every step that completes a posted request (fulfilled with a result,
\* fulfilled without one, or rejected) leaves loading false.
C2_CompletionClearsLoading ==
    [][ (awaiting' # awaiting /\ awaiting' \subseteq awaiting) =>
            loading' = FALSE ]_vars

C2_Witness ==
    /\ lastCall.fn = "rejected"
    /\ message.level = "error"
    /\ awaiting = {}
    /\ ~loading

\* C3 as stated: after a response whose result field is any string t, the
\* empty string included, result = rawResult = t and success is reported.
C3_AnyTextIsStored ==
    lastCall.fn = "fulfilled" =>
        LET response == lastCall.args[2] IN
        (response.data = "object" /\ response.hasResult) =>
            /\ result = response.result
            /\ rawResult = response.result
            /\ message.level = "success"

\* C3 amended: after a response whose result field is a non-empty string t,
\* result = rawResult = t and success is reported.
C3_NonEmptyTextIsStored ==
    lastCall.fn = "fulfilled" =>
        LET response == lastCall.args[2] IN
        (response.data = "object" /\ response.hasResult /\ response.result # "") =>
            /\ result = response.result
            /\ rawResult = response.result
            /\ message.level = "success"

C3_Witness ==
    /\ lastCall.fn = "fulfilled"
    /\ lastCall.args[2].result = "xyz"
    /\ result = "xyz"
    /\ rawResult = "xyz"
    /\ message = ElMessage("success", "recognised", "")
    /\ Len(posted) = 2

\* C4 as stated: when a request completes without a result, result and
\* rawResult equal their values before that submitUpload() call, whatever
\* the user did while the request was in flight.
C4_UnchangedSinceCall ==
    [][ \A i \in awaiting \ awaiting' :
            CompletedWithoutResult => << result', rawResult' >> = atCall[i] ]_vars

\* C4 amended: a completion without a result leaves result and rawResult as
\* they were just before it, and equal to their values before the
\* submitUpload() call provided no file was selected or removed in flight.
C4_UnchangedByCompletion ==
    [][ \A i \in awaiting \ awaiting' :
            CompletedWithoutResult =>
                /\ result' = result
                /\ rawResult' = rawResult
                /\ (i \notin reselected => << result', rawResult' >> = atCall[i]) ]_vars

C4_Witness ==
    /\ lastCall.fn \in {"fulfilled", "rejected"}
    /\ lastCall.fn = "fulfilled" => ~lastCall.args[2].hasResult
    /\ message.level \in {"warning", "error"}
    /\ result # ""
    /\ rawResult = result
    /\ modeTouched

\* C5: fileList never holds more than one file; after handleUploadChange(f)
\* it is exactly <<f>>, and after handleRemove it is empty.
C5_AtMostOneSelectedFile ==
    /\ Len(fileList) <= 1
    /\ lastCall.fn = "handleUploadChange" => fileList = << lastCall.args[1] >>
    /\ lastCall.fn = "handleRemove" => fileList = << >>

C5_Witness ==
    /\ lastCall.fn = "handleUploadChange"
    /\ fileList = << lastCall.args[1] >>
    /\ fileList[1].raw = "blobB"
    /\ Len(posted) > 0
    /\ posted[1].file = "blobA"

\* C7: a posted request carries the selected file and the mode as they are
\* when submitUpload() is called (markdown if the mode was never touched, and
\* always markdown or ocr); posted requests never change afterwards, and a
\* mode change alters no request in flight and no stored result.
C7_RequestCarriesModeAtCall ==
    [][ /\ \A i \in 1..Len(posted) : i <= Len(posted') /\ posted'[i] = posted[i]
        /\ Len(posted') > Len(posted) =>
              /\ Len(posted') = Len(posted) + 1
              /\ fileList # << >>
              /\ posted'[Len(posted')] = [file |-> fileList[1].raw, mode |-> selectedMode]
              /\ posted'[Len(posted')].mode \in {"markdown", "ocr"}
              /\ ~modeTouched => posted'[Len(posted')].mode = "markdown"
        /\ selectedMode' # selectedMode =>
              /\ posted' = posted
              /\ awaiting' = awaiting
              /\ result' = result
              /\ rawResult' = rawResult ]_vars

C7_Witness ==
    /\ Len(posted) = 2
    /\ posted[1].file = posted[2].file
    /\ posted[1].mode = "markdown"
    /\ posted[2].mode = "ocr"
    /\ awaiting = {2}
    /\ lastCall = Call("selectedMode", << "markdown" >>)
    /\ selectedMode = "markdown"
    /\ result # ""

C9_LoadingIffRequestOutstanding ==
    /\ loading <=> awaiting # {}
    /\ Cardinality(awaiting) <= 1

C9_Witness ==
    /\ loading
    /\ awaiting = {2}
    /\ Len(posted) = 2

\* C10 as stated: whenever result or rawResult is non-empty a file is
\* selected and the text is the response to a submission of that file.
C10_ResultBelongsToSelection ==
    (result # "" \/ rawResult # "") =>
        /\ fileList # << >>
        /\ resultSource = fileList[1].raw

====
